---- MODULE Spec2Model ----
(***************************************************************************)
(* State-machine model of DDPGAgent (src/DDPG/agent.py).                   *)
(*                                                                         *)
(* Floats are modelled as exact rationals <<n, d>> in lowest terms, d > 0; *)
(* -np.inf is <<-1, 0>>.  The collaborators whose code lives in            *)
(* DDPG.tools (ReplayBuffer, OUNoise) and DDPG.actorcritic (the networks)  *)
(* are modelled from their documented contract.  A weight collection is a  *)
(* sequence of tensors and a tensor a sequence of rationals.               *)
(***************************************************************************)
EXTENDS Integers, Sequences, FiniteSets

\* ------------------------------------------------------------ bounds
\* Capacity and batch size of the replay memory.  The source constructs the
\* buffer with 100000 and 16 (agent.py:34-35); the model scales both down and
\* every property is stated relative to them.
buffer_size == 2
batch_size == 1
\* Number of step calls and of reset_episode calls explored.
MaxSteps == 3
MaxResets == 3
\* Largest batch of the TD-target computation explored on its own.
MaxBatch == 2
\* soft_update explored on its own: tensors per collection, entries per
\* tensor, and number of successive calls.
MaxTensors == 2
MaxTensorLen == 2
MaxSoftCalls == 2

\* ------------------------------------------------------------ numbers
Abs(x) == IF x < 0 THEN 0 - x ELSE x

RECURSIVE GCD(_, _)
GCD(a, b) == IF b = 0 THEN a ELSE GCD(b, a % b)

Rat(n, d) == LET g == GCD(Abs(n), d) IN <<n \div g, d \div g>>
RInt(i) == <<i, 1>>
RAdd(a, b) == Rat(a[1] * b[2] + b[1] * a[2], a[2] * b[2])
RSub(a, b) == Rat(a[1] * b[2] - b[1] * a[2], a[2] * b[2])
RMul(a, b) == Rat(a[1] * b[1], a[2] * b[2])
RDiv(a, k) == Rat(a[1], a[2] * k)
\* a > b on floats, -inf included (d = 0 with n < 0).
FloatGT(a, b) == a[1] * b[2] > b[1] * a[2]
NegInf == <<0 - 1, 0>>
\* Marker of an attribute that has not been assigned yet.
NoAttr == <<0, 0>>
NoState == 0 - 1

Min(S) == CHOOSE x \in S : \A y \in S : x <= y

\* ------------------------------------------------------------ hyperparameters
\* self.gamma = 0.99
gammaNum == 99
gammaDen == 100
gamma == Rat(gammaNum, gammaDen)
\* self.tau = 0.1
tauNum == 1
tauDen == 10
\* self.noise_mean = 0
noise_mean == 0

\* ------------------------------------------------------------ input domains
InitStates == {0}
NextStates == {1, 2}
Actions == {0}
NoiseVals == {0, 1}
TrainVals == {0, 1}
\* weights the local models are constructed with
InitActor == {1}
InitCritic == {2}
\* (reward, next_state, done) triples passed to step
StepInputs == { <<0 - 1, 1, FALSE>>, <<2, 2, TRUE>> }

VARIABLES
    pc,               \* position of the running call ("idle" between calls)
    ret,              \* <<operation, value>> of the last call that returned or raised
    total_reward, num_steps, best_score, last_state,
    memory,           \* contents of self.memory, oldest first
    noise,            \* state x of self.noise
    actor, actor_target, critic, critic_target,    \* weights of the four models
    tau,              \* self.tau
    args,             \* arguments of the running step call
    experiences, Q_targets_next, Q_targets, action_gradients,   \* locals of learn
    log               \* history: the calls made so far, in order

vars == <<pc, ret, total_reward, num_steps, best_score, last_state, memory, noise,
          actor, actor_target, critic, critic_target, tau, args,
          experiences, Q_targets_next, Q_targets, action_gradients, log>>

episode == <<total_reward, num_steps, best_score, last_state>>
weights == <<actor, actor_target, critic, critic_target>>
locals == <<experiences, Q_targets_next, Q_targets, action_gradients>>

\* ------------------------------------------------------------ collaborators
\* One-tensor, one-entry weight collection holding the number w.
W1(w) == << <<w>> >>

\* model.get_weights() / model.set_weights(w).  set_weights refuses values
\* whose shapes differ from the model's.
Shape(W) == [i \in DOMAIN W |-> Len(W[i])]
set_weights(model, new) ==
    IF Shape(new) = Shape(model)
    THEN [exc |-> "none", target |-> new]
    ELSE [exc |-> "ValueError", target |-> model]

\* Actor.predict: deterministic action for a state
ActorPredict(W, s) == RMul(W[1][1], RInt(s))
\* Critic.predict: Q value of (state, action)
CriticPredict(W, s, a) == RMul(W[1][1], RAdd(RInt(s), a))
\* Critic.get_action_gradients: dQ/da at (state, action)
CriticActionGradient(W, s, a) == W[1][1]

\* ReplayBuffer(self.buffer_size, self.batch_size), line 36: the capacity
\* the buffer is constructed with
memory_capacity_swapped == batch_size
memory_capacity == buffer_size

\* ReplayBuffer.add: FIFO eviction when full
ReplayAdd(mem, e) ==
    IF Len(mem) = memory_capacity THEN Append(Tail(mem), e) ELSE Append(mem, e)

RECURSIVE Pick(_, _)
Pick(mem, S) ==
    IF S = {} THEN <<>>
    ELSE LET m == Min(S) IN <<mem[m]>> \o Pick(mem, S \ {m})

\* ReplayBuffer.sample: the possible results, min(B, size) distinct entries
ReplaySamples(mem) ==
    LET k == IF batch_size < Len(mem) THEN batch_size ELSE Len(mem)
    IN { Pick(mem, S) : S \in { T \in SUBSET (1..Len(mem)) : Cardinality(T) = k } }

\* ------------------------------------------------------------ pure functions
\* get_score (line 58)
get_score_cumulative ==
    IF num_steps = 0 THEN NegInf ELSE total_reward
get_score ==
    IF num_steps = 0 THEN NegInf ELSE RDiv(total_reward, num_steps)

\* dones.astype(np.uint8)
AsUint8(done) == IF done THEN 1 ELSE 0

TDTarget_nomask(reward, qnext, done) ==
    RAdd(RInt(reward), RMul(gamma, qnext))
\* line 98, one row: rewards + gamma * Q_targets_next * (1 - dones), the
\* subtraction in uint8
TDTarget(reward, qnext, done) ==
    RAdd(RInt(reward), RMul(RMul(gamma, qnext), RInt((1 - AsUint8(done)) % 256)))

\* tau * l + (1 - tau) * t on two tensors, numpy broadcasting a length-1 operand
Broadcastable(a, b) == a = b \/ a = 1 \/ b = 1
MixTensor_swapped(t, l, g) ==
    LET n == IF Len(l) > Len(g) THEN Len(l) ELSE Len(g)
        at(x, j) == IF Len(x) = 1 THEN x[1] ELSE x[j]
    IN [j \in 1..n |->
          RAdd(RMul(RSub(RInt(1), t), at(l, j)), RMul(t, at(g, j)))]
MixTensor(t, l, g) ==
    LET n == IF Len(l) > Len(g) THEN Len(l) ELSE Len(g)
        at(x, j) == IF Len(x) = 1 THEN x[1] ELSE x[j]
    IN [j \in 1..n |->
          RAdd(RMul(t, at(l, j)), RMul(RSub(RInt(1), t), at(g, j)))]

\* soft_update (lines 109-117): the exception raised, if any, and the target
\* model's weights afterwards
soft_update(t, local_weights, target_weights) ==
    IF Len(local_weights) # Len(target_weights)
    THEN [exc |-> "AssertionError", target |-> target_weights]
    ELSE IF \E i \in DOMAIN local_weights :
                ~Broadcastable(Len(local_weights[i]), Len(target_weights[i]))
    THEN [exc |-> "ValueError", target |-> target_weights]
    ELSE set_weights(target_weights,
                     [i \in DOMAIN local_weights |->
                        MixTensor(t, local_weights[i], target_weights[i])])

\* ------------------------------------------------------------ history helpers
StepCount(l) == Cardinality({i \in DOMAIN l : l[i][1] = "step"})
ResetCount(l) == Cardinality({i \in DOMAIN l : l[i][1] = "reset"})

\* ------------------------------------------------------------ construction
\* __init__ (lines 7-43): total_reward and last_state are not assigned
Init ==
    /\ pc = "idle"
    /\ ret = <<"init", "None">>
    /\ total_reward = NoAttr
    /\ num_steps = 0
    /\ best_score = NegInf
    /\ last_state = NoState
    /\ memory = <<>>
    /\ noise = noise_mean
    /\ \E a \in InitActor, c \in InitCritic :
          /\ actor = W1(RInt(a))
          /\ critic = W1(RInt(c))
          /\ critic_target = set_weights(W1(RInt(0)), critic).target
          /\ actor_target = set_weights(W1(RInt(0)), actor).target
    /\ tau = Rat(tauNum, tauDen)
    /\ args = <<>>
    /\ experiences = <<>>
    /\ Q_targets_next = <<>>
    /\ Q_targets = <<>>
    /\ action_gradients = <<>>
    /\ log = <<>>


\* ------------------------------------------------------------ operations
\* lines 46-47: the best score after closing the current episode
NewBest_last == get_score
NewBest == IF FloatGT(get_score, best_score) THEN get_score ELSE best_score

\* reset_episode (lines 45-55)
ResetEpisode ==
    /\ pc = "idle"
    /\ ResetCount(log) < MaxResets
    /\ best_score' = NewBest
    /\ noise' = noise_mean
    /\ \E s0 \in InitStates :
          /\ last_state' = s0
          /\ ret' = <<"reset_episode", s0>>
          /\ log' = Append(log, <<"reset", s0>>)
    /\ total_reward' = RInt(0)
    /\ num_steps' = 0
    /\ UNCHANGED <<pc, memory, weights, tau, args, locals>>

\* get_score (lines 57-58), called from outside
GetScore ==
    /\ pc = "idle"
    /\ ret' = <<"get_score", get_score>>
    /\ UNCHANGED <<pc, episode, memory, noise, weights, tau, args, locals, log>>

\* act (lines 75-80); noise.sample() moves the noise state and returns it
Act ==
    /\ pc = "idle"
    /\ \E s \in InitStates \cup NextStates, x \in NoiseVals :
          /\ noise' = x
          /\ ret' = <<"act", RAdd(ActorPredict(actor, s), RInt(x))>>
    /\ UNCHANGED <<pc, episode, memory, weights, tau, args, locals, log>>

\* step before any reset_episode: line 61 reads the unassigned total_reward
StepNoEpisode ==
    /\ pc = "idle"
    /\ total_reward = NoAttr
    /\ ret' = <<"step", "AttributeError">>
    /\ UNCHANGED <<pc, episode, memory, noise, weights, tau, args, locals, log>>

\* line 61: self.total_reward += reward
Accumulate_assign(total, reward) == RInt(reward)
Accumulate(total, reward) == RAdd(total, RInt(reward))

\* step, lines 61-62
StepBegin ==
    /\ pc = "idle"
    /\ total_reward # NoAttr
    /\ StepCount(log) < MaxSteps
    /\ \E a \in Actions, in \in StepInputs :
          /\ total_reward' = Accumulate(total_reward, in[1])
          /\ args' = <<a, in[1], in[2], in[3]>>
          /\ log' = Append(log, <<"step", a, in[1], in[2], in[3]>>)
    /\ num_steps' = num_steps + 1
    /\ pc' = "step_add"
    /\ ret' = <<"step", "running">>
    /\ UNCHANGED <<best_score, last_state, memory, noise, weights, tau, locals>>

Experience_rolled ==
    [state |-> args[3], action |-> args[1], reward |-> args[2],
     next_state |-> args[3], done |-> args[4]]
\* the experience tuple of line 65
Experience ==
    [state |-> last_state, action |-> args[1], reward |-> args[2],
     next_state |-> args[3], done |-> args[4]]

\* step, line 65
StepAdd ==
    /\ pc = "step_add"
    /\ memory' = ReplayAdd(memory, Experience)
    /\ pc' = "step_check"
    /\ UNCHANGED <<ret, episode, noise, weights, tau, args, locals, log>>

EnoughSamples_ge == Len(memory) >= batch_size
\* the guard of line 68
EnoughSamples == Len(memory) > batch_size

\* step, lines 68-69
StepCheck ==
    /\ pc = "step_check"
    /\ IF EnoughSamples
       THEN /\ \E e \in ReplaySamples(memory) : experiences' = e
            /\ pc' = "learn_predict"
       ELSE /\ experiences' = experiences
            /\ pc' = "step_roll"
    /\ UNCHANGED <<ret, episode, memory, noise, weights, tau, args,
                   Q_targets_next, Q_targets, action_gradients, log>>

\* learn, lines 86-95: Q values of the next states from the target models
LearnPredict ==
    /\ pc = "learn_predict"
    /\ Q_targets_next' =
          [i \in DOMAIN experiences |->
             CriticPredict(critic_target, experiences[i].next_state,
                           ActorPredict(actor_target, experiences[i].next_state))]
    /\ pc' = "learn_td"
    /\ UNCHANGED <<ret, episode, memory, noise, weights, tau, args,
                   experiences, Q_targets, action_gradients, log>>

\* learn, line 98
LearnTD ==
    /\ pc = "learn_td"
    /\ Q_targets' =
          [i \in DOMAIN experiences |->
             TDTarget(experiences[i].reward, Q_targets_next[i], experiences[i].done)]
    /\ pc' = "learn_critic"
    /\ UNCHANGED <<ret, episode, memory, noise, weights, tau, args,
                   experiences, Q_targets_next, action_gradients, log>>

LearnCritic_target ==
    /\ pc = "learn_critic"
    /\ \E w \in TrainVals : critic_target' = W1(RInt(w))
    /\ pc' = "learn_grad"
    /\ UNCHANGED <<ret, episode, memory, noise, actor, actor_target, critic,
                   tau, args, locals, log>>
\* learn, line 99: one training step of the local critic; the resulting
\* weights are whatever the optimizer produces
LearnCritic ==
    /\ pc = "learn_critic"
    /\ \E w \in TrainVals : critic' = W1(RInt(w))
    /\ pc' = "learn_grad"
    /\ UNCHANGED <<ret, episode, memory, noise, actor, actor_target, critic_target,
                   tau, args, locals, log>>

\* learn, line 102
LearnGrad ==
    /\ pc = "learn_grad"
    /\ action_gradients' =
          [i \in DOMAIN experiences |->
             CriticActionGradient(critic, experiences[i].state, experiences[i].action)]
    /\ pc' = "learn_actor"
    /\ UNCHANGED <<ret, episode, memory, noise, weights, tau, args,
                   experiences, Q_targets_next, Q_targets, log>>

\* learn, line 103: one training step of the local actor
LearnActor ==
    /\ pc = "learn_actor"
    /\ \E w \in TrainVals : actor' = W1(RInt(w))
    /\ pc' = "soft_critic"
    /\ UNCHANGED <<ret, episode, memory, noise, actor_target, critic, critic_target,
                   tau, args, locals, log>>

\* an exception leaving step: the call is over, nothing is rolled back
Raise(exc) ==
    /\ pc' = "idle"
    /\ ret' = <<"step", exc>>
    /\ args' = <<>>
    /\ experiences' = <<>>
    /\ Q_targets_next' = <<>>
    /\ Q_targets' = <<>>
    /\ action_gradients' = <<>>

\* learn, line 106
SoftCritic ==
    /\ pc = "soft_critic"
    /\ LET r == soft_update(tau, critic, critic_target)
       IN /\ critic_target' = r.target
          /\ IF r.exc = "none"
             THEN pc' = "soft_actor" /\ UNCHANGED <<ret, args, locals>>
             ELSE Raise(r.exc)
    /\ UNCHANGED <<episode, memory, noise, actor, actor_target, critic, tau, log>>

\* learn, line 107
SoftActor ==
    /\ pc = "soft_actor"
    /\ LET r == soft_update(tau, actor, actor_target)
       IN /\ actor_target' = r.target
          /\ IF r.exc = "none"
             THEN pc' = "step_roll" /\ UNCHANGED <<ret, args, locals>>
             ELSE Raise(r.exc)
    /\ UNCHANGED <<episode, memory, noise, actor, critic, critic_target, tau, log>>

\* step, line 73, and return
StepRoll ==
    /\ pc = "step_roll"
    /\ last_state' = args[3]
    /\ pc' = "idle"
    /\ ret' = <<"step", "None">>
    /\ args' = <<>>
    /\ experiences' = <<>>
    /\ Q_targets_next' = <<>>
    /\ Q_targets' = <<>>
    /\ action_gradients' = <<>>
    /\ UNCHANGED <<total_reward, num_steps, best_score, memory, noise, weights, tau, log>>

Next ==
    \/ ResetEpisode
    \/ GetScore
    \/ Act
    \/ StepNoEpisode
    \/ StepBegin
    \/ StepAdd
    \/ StepCheck
    \/ LearnPredict
    \/ LearnTD
    \/ LearnCritic
    \/ LearnGrad
    \/ LearnActor
    \/ SoftCritic
    \/ SoftActor
    \/ StepRoll

Spec == Init /\ [][Next]_vars


\* ------------------------------------------------------------ learn's TD target on its own
\* Inputs of line 98: a batch of experiences and the target critic's values
TDRewards == {0 - 1, 0, 10}
TDQNext == { RInt(0 - 5), RInt(0), Rat(1, 2), RInt(100) }
TDExperiences ==
    { [state |-> 0, action |-> 0, reward |-> r, next_state |-> 1, done |-> d] :
        r \in TDRewards, d \in BOOLEAN }

InitTD ==
    /\ pc = "learn_td"
    /\ ret = <<"step", "running">>
    /\ total_reward = RInt(0)
    /\ num_steps = 0
    /\ best_score = NegInf
    /\ last_state = 0
    /\ memory = <<>>
    /\ noise = noise_mean
    /\ actor = W1(RInt(1))
    /\ critic = W1(RInt(1))
    /\ actor_target = actor
    /\ critic_target = critic
    /\ tau = Rat(tauNum, tauDen)
    /\ args = <<>>
    /\ \E n \in 1..MaxBatch :
          /\ experiences \in [1..n -> TDExperiences]
          /\ Q_targets_next \in [1..n -> TDQNext]
    /\ Q_targets = <<>>
    /\ action_gradients = <<>>
    /\ log = <<>>

NextTD == LearnTD

SpecTD == InitTD /\ [][NextTD]_vars

\* ------------------------------------------------------------ soft_update on its own
\* Weight collections of c tensors of n entries each
Collection(c, n, b) == [i \in 1..c |-> [j \in 1..n |-> RInt(b + 3 * i + j)]]
Collections ==
    { Collection(c, n, b) : c \in 1..MaxTensors, n \in 1..MaxTensorLen, b \in {0, 20} }
SoftTaus == { RInt(0), Rat(tauNum, tauDen), RInt(1) }

SoftCount(l) == Cardinality({i \in DOMAIN l : l[i][1] = "soft_update"})

InitSoft ==
    /\ pc = "idle"
    /\ ret = <<"init", "None">>
    /\ total_reward = NoAttr
    /\ num_steps = 0
    /\ best_score = NegInf
    /\ last_state = NoState
    /\ memory = <<>>
    /\ noise = noise_mean
    /\ actor \in Collections
    /\ actor_target \in Collections
    /\ critic = W1(RInt(1))
    /\ critic_target = critic
    /\ tau \in SoftTaus
    /\ args = <<>>
    /\ experiences = <<>>
    /\ Q_targets_next = <<>>
    /\ Q_targets = <<>>
    /\ action_gradients = <<>>
    /\ log = <<>>

\* soft_update(self.actor.model, self.actor_target.model) called from outside
SoftUpdateCall ==
    /\ pc = "idle"
    /\ SoftCount(log) < MaxSoftCalls
    /\ LET r == soft_update(tau, actor, actor_target)
       IN /\ actor_target' = r.target
          /\ ret' = <<"soft_update", r.exc>>
    /\ log' = Append(log, <<"soft_update", actor, actor_target>>)
    /\ UNCHANGED <<pc, episode, memory, noise, actor, critic, critic_target, tau,
                   args, locals>>

NextSoft == SoftUpdateCall

SpecSoft == InitSoft /\ [][NextSoft]_vars


\* ------------------------------------------------------------ reading the history
Max(S) == CHOOSE x \in S : \A y \in S : x >= y

RECURSIVE AscSeq(_)
AscSeq(S) == IF S = {} THEN <<>> ELSE <<Min(S)>> \o AscSeq(S \ {Min(S)})

\* log entries: <<"reset", s0>>, <<"step", action, reward, next_state, done>>,
\* <<"soft_update", local before, target before>>
StepIdx(l) == {i \in DOMAIN l : l[i][1] = "step"}
ResetIdx(l) == {i \in DOMAIN l : l[i][1] = "reset"}
LastResetIdx(l) == Max({0} \cup ResetIdx(l))

RECURSIVE SumRewards(_, _)
SumRewards(l, S) ==
    IF S = {} THEN 0
    ELSE LET i == Min(S) IN l[i][3] + SumRewards(l, S \ {i})

\* the steps of the episode that the reset at index i closes, and its mean reward
EpisodeBefore(l, i) ==
    LET p == Max({0} \cup {k \in ResetIdx(l) : k < i})
    IN {j \in StepIdx(l) : p < j /\ j < i}
ClosedScore(l, i) ==
    LET S == EpisodeBefore(l, i)
    IN IF S = {} THEN NegInf ELSE Rat(SumRewards(l, S), Cardinality(S))

\* the state the agent was in when the step logged at index k was called
StateBefore(l, k) == IF l[k - 1][1] = "reset" THEN l[k - 1][2] ELSE l[k - 1][4]
ExperienceOf(l, k) ==
    [state |-> StateBefore(l, k), action |-> l[k][2], reward |-> l[k][3],
     next_state |-> l[k][4], done |-> l[k][5]]
\* the experiences handed to the buffer so far, oldest first
Added ==
    LET idx == AscSeq(StepIdx(log) \ (IF pc = "step_add" THEN {Len(log)} ELSE {}))
    IN [m \in 1..Len(idx) |-> ExperienceOf(log, idx[m])]
LastN(q, n) == SubSeq(q, Len(q) - n + 1, Len(q))

LearnPcs == {"learn_predict", "learn_td", "learn_critic", "learn_grad",
             "learn_actor", "soft_critic", "soft_actor"}
LearnOrder == { <<"learn_predict", "learn_td">>, <<"learn_td", "learn_critic">>,
                <<"learn_critic", "learn_grad">>, <<"learn_grad", "learn_actor">>,
                <<"learn_actor", "soft_critic">>, <<"soft_critic", "soft_actor">>,
                <<"soft_actor", "step_roll">> }

\* x = t * l + (1 - t) * g on rationals, by cross-multiplication
IsMix(x, t, l, g) ==
    /\ x[2] > 0
    /\ x[1] * (t[2] * l[2] * g[2])
         = x[2] * (t[1] * l[1] * g[2] + (t[2] - t[1]) * g[1] * l[2])

\* ------------------------------------------------------------ C1
C1_ScoreValue ==
    ret[1] = "get_score" =>
        /\ (log = <<>> \/ log[Len(log)][1] = "reset") => ret[2] = NegInf
        /\ IF num_steps = 0
           THEN ret[2] = NegInf
           ELSE /\ ret[2][2] > 0
                /\ ret[2][1] * num_steps * total_reward[2] = total_reward[1] * ret[2][2]
\* C1: get_score returns -inf when num_steps = 0 (fresh agent and right after
\* reset_episode included), otherwise the mean total_reward / num_steps, and
\* changes no agent state.
C1_GetScore ==
    /\ []C1_ScoreValue
    /\ [][ret'[1] = "get_score" =>
            UNCHANGED <<pc, episode, memory, noise, weights, tau, args, locals, log>>]_vars
\* a mean that differs from the cumulative reward: rewards -1 and 2 give 1/2
C1_Witness ==
    /\ ret = <<"get_score", <<1, 2>>>>
    /\ total_reward = RInt(1)
    /\ num_steps = 2

\* ------------------------------------------------------------ C2
C2_IsRunningMax ==
    /\ \A i \in ResetIdx(log) : ~FloatGT(ClosedScore(log, i), best_score)
    /\ \/ best_score = NegInf
       \/ \E i \in ResetIdx(log) : ClosedScore(log, i) = best_score
\* C2: best_score is the running maximum of the mean reward of the episodes
\* closed so far by reset_episode (-inf if none had a step); only
\* reset_episode changes it, to max(old, get_score), and it never decreases.
C2_BestScore ==
    /\ []C2_IsRunningMax
    /\ [][best_score' # best_score =>
            /\ ret'[1] = "reset_episode"
            /\ pc = "idle"
            /\ Len(log') = Len(log) + 1
            /\ best_score' = get_score
            /\ FloatGT(best_score', best_score)]_vars
    /\ [][~FloatGT(best_score, best_score')]_vars
\* three episodes closed, the last one worse than the best
C2_Witness ==
    /\ ResetCount(log) = 3
    /\ ret[1] = "reset_episode"
    /\ best_score = RInt(2)
    /\ ClosedScore(log, Len(log)) = RInt(0 - 1)

\* ------------------------------------------------------------ C3
\* C3: step samples and learns exactly when the buffer, after the insert,
\* holds more than batch_size transitions; learn never runs on batch_size or
\* fewer stored transitions and its batch is never empty.
C3_LearnGuard ==
    /\ pc \in LearnPcs =>
          /\ Len(memory) > batch_size
          /\ Len(experiences) > 0
          /\ \A i \in DOMAIN experiences : \E m \in DOMAIN memory : memory[m] = experiences[i]
    /\ pc = "step_roll" => (experiences = <<>> <=> Len(memory) <= batch_size)
C3_Witness ==
    /\ pc = "learn_predict"
    /\ Len(memory) = batch_size + 1
    /\ Len(experiences) = batch_size

\* ------------------------------------------------------------ C4
\* C4: every row of Q_targets is reward + gamma * Q_targets_next * (1 - done):
\* the reward alone for a terminal transition, reward + gamma * Q_targets_next
\* for a non-terminal one.
C4_TDTarget ==
    pc = "learn_critic" =>
        /\ DOMAIN Q_targets = DOMAIN experiences
        /\ \A i \in DOMAIN experiences :
              LET e == experiences[i]
                  q == Q_targets_next[i]
                  y == Q_targets[i]
              IN /\ e.done => y = RInt(e.reward)
                 /\ ~e.done =>
                       /\ y[2] > 0
                       /\ y[1] * (gammaDen * q[2])
                            = y[2] * (e.reward * gammaDen * q[2] + gammaNum * q[1])
\* gamma = 0.99, reward = 10, done, Q_targets_next = 100 gives 10, next to a
\* non-terminal row that does bootstrap
C4_Witness ==
    /\ pc = "learn_critic"
    /\ Len(experiences) = 2
    /\ experiences[1].done /\ experiences[1].reward = 10
    /\ Q_targets_next[1] = RInt(100) /\ Q_targets[1] = RInt(10)
    /\ ~experiences[2].done /\ experiences[2].reward = 10
    /\ Q_targets_next[2] = RInt(100) /\ Q_targets[2] = RInt(109)


\* ------------------------------------------------------------ C5
\* the soft_update call logged last, if the last call was one
LastSoft == log # <<>> /\ log[Len(log)][1] = "soft_update"
SoftLocal == log[Len(log)][2]
SoftTarget == log[Len(log)][3]

\* C5: on collections of identical structure soft_update sets every target
\* weight to tau * local + (1 - tau) * target of the weights read before the
\* call and leaves the local weights alone; tau = 0 leaves the target
\* unchanged and tau = 1 makes it equal to the local weights.
C5_SoftUpdate ==
    (LastSoft /\ Shape(SoftLocal) = Shape(SoftTarget)) =>
        /\ ret = <<"soft_update", "none">>
        /\ actor = SoftLocal
        /\ Shape(actor_target) = Shape(SoftTarget)
        /\ \A i \in DOMAIN actor_target : \A j \in DOMAIN actor_target[i] :
              IsMix(actor_target[i][j], tau, SoftLocal[i][j], SoftTarget[i][j])
        /\ tau = RInt(0) => actor_target = SoftTarget
        /\ tau = RInt(1) => actor_target = SoftLocal
\* a second call with tau = 0.1 on two tensors of two entries whose local and
\* target values differ
C5_Witness ==
    /\ LastSoft
    /\ SoftCount(log) = 2
    /\ tau = Rat(tauNum, tauDen)
    /\ Shape(SoftLocal) = <<2, 2>>
    /\ Shape(SoftTarget) = <<2, 2>>
    /\ SoftLocal # SoftTarget
    /\ actor_target # SoftTarget

\* ------------------------------------------------------------ C7
\* C7: a soft_update call on collections that differ in count or in shapes
\* fails hard and leaves the target's weights unchanged.
C7_MismatchFails ==
    (LastSoft /\ Shape(SoftLocal) # Shape(SoftTarget)) =>
        /\ ret[2] # "none"
        /\ actor_target = SoftTarget

\* ------------------------------------------------------------ C6
\* C6: the replay memory never holds more than buffer_size transitions; once
\* more than buffer_size have been added it holds exactly the buffer_size
\* most recent ones, in insertion order.
C6_Fifo ==
    LET n == Len(Added)
        k == IF n > buffer_size THEN buffer_size ELSE n
    IN /\ Len(memory) <= buffer_size
       /\ Len(memory) = k
       /\ memory = LastN(Added, k)
\* more adds than the capacity: the oldest transition is gone
C6_Witness ==
    /\ pc = "idle"
    /\ Len(Added) = buffer_size + 1
    /\ Len(memory) = buffer_size
    /\ \A m \in DOMAIN memory : memory[m] # Added[1]
    /\ memory[Len(memory)] = Added[Len(Added)]

\* ------------------------------------------------------------ C8
C8_CountersMatch ==
    /\ ResetCount(log) >= 1 =>
          LET S == {j \in StepIdx(log) : j > LastResetIdx(log)}
          IN /\ num_steps = Cardinality(S)
             /\ total_reward = RInt(SumRewards(log, S))
    /\ ret[1] = "reset_episode" =>
          /\ num_steps = 0
          /\ total_reward = RInt(0)
          /\ log[Len(log)][1] = "reset"
          /\ ret[2] = log[Len(log)][2]
          /\ last_state = ret[2]
\* C8: after a reset_episode, num_steps counts the step calls since the last
\* reset_episode and total_reward sums their rewards; reset_episode zeroes
\* both and returns the environment's initial state; act and learn change
\* neither.
C8_Counters ==
    /\ []C8_CountersMatch
    /\ [][(ret'[1] = "act" \/ pc \in LearnPcs) =>
            UNCHANGED <<num_steps, total_reward>>]_vars
\* a second episode one step long, after a first episode of two steps
C8_Witness ==
    /\ pc = "idle"
    /\ ResetCount(log) = 2
    /\ StepCount(log) = 3
    /\ num_steps = 1
    /\ total_reward = RInt(2)
    /\ log[2][1] = "step" /\ log[3][1] = "step"

\* ------------------------------------------------------------ C9
\* C9: every stored transition has as its state the agent's last_state at
\* the time of the step call (the initial state after a reset, the previous
\* step's next_state otherwise), and last_state moves to next_state only
\* once the transition is stored and learn, if triggered, is over.
C9_StoredState ==
    /\ Len(memory) <= Len(Added)
    /\ \A m \in DOMAIN memory :
          memory[m].state = Added[Len(Added) - Len(memory) + m].state
    /\ (pc # "idle" /\ log # <<>> /\ log[Len(log)][1] = "step") =>
          last_state = StateBefore(log, Len(log))
    /\ (pc = "idle" /\ log # <<>> /\ log[Len(log)][1] = "step") =>
          last_state = log[Len(log)][4]
    /\ (log # <<>> /\ log[Len(log)][1] = "reset") =>
          last_state = log[Len(log)][2]
\* learn is about to finish in a step that follows another step: last_state
\* is still the previous step's next_state, which is the stored state
C9_Witness ==
    /\ pc = "soft_actor"
    /\ log[Len(log) - 1][1] = "step"
    /\ last_state = log[Len(log) - 1][4]
    /\ last_state # args[3]
    /\ memory[Len(memory)].state = last_state
    /\ memory[Len(memory)].next_state = args[3]

\* ------------------------------------------------------------ C10
C10_TargetsAtEntry ==
    /\ log = <<>> => (actor_target = actor /\ critic_target = critic)
    /\ pc \in {"learn_td", "learn_critic", "learn_grad", "learn_actor", "soft_critic"} =>
          \A i \in DOMAIN experiences :
             Q_targets_next[i] =
                CriticPredict(critic_target, experiences[i].next_state,
                              ActorPredict(actor_target, experiences[i].next_state))
    /\ pc \in {"learn_actor", "soft_critic", "soft_actor"} =>
          \A i \in DOMAIN experiences :
             action_gradients[i] =
                CriticActionGradient(critic, experiences[i].state, experiences[i].action)
\* C10: the targets equal the locals after construction and change only in
\* soft_update; in learn the TD targets come from the target weights as they
\* were at entry, the critic is trained before the action gradients are taken
\* and the actor trained, and the soft updates (critic, then actor) come last
\* and use the freshly trained local weights; outside learn no weights change.
C10_Targets ==
    /\ []C10_TargetsAtEntry
    /\ [][/\ critic_target' # critic_target =>
               /\ pc = "soft_critic" /\ pc' = "soft_actor"
               /\ critic' = critic
               /\ IsMix(critic_target'[1][1], tau, critic[1][1], critic_target[1][1])
          /\ actor_target' # actor_target =>
               /\ pc = "soft_actor" /\ pc' = "step_roll"
               /\ actor' = actor
               /\ IsMix(actor_target'[1][1], tau, actor[1][1], actor_target[1][1])
          /\ critic' # critic => (pc = "learn_critic" /\ pc' = "learn_grad")
          /\ actor' # actor => (pc = "learn_actor" /\ pc' = "soft_critic")
          /\ (pc \in LearnPcs /\ pc' # pc) => <<pc, pc'>> \in LearnOrder
          /\ pc \notin LearnPcs => UNCHANGED weights]_vars
\* a second learn has run: the critic target lags two soft updates behind
C10_Witness ==
    /\ pc = "step_roll"
    /\ experiences # <<>>
    /\ critic_target[1][1][2] = tauDen * tauDen
    /\ critic_target # critic
    /\ actor_target # actor

====
